---- MODULE Spec2Model ----
(***************************************************************************)
(* A state-machine model of matcall (src/matcall/core.py): the dynamic     *)
(* class proxy factory (translate_obj, MatClass, define_property,          *)
(* define_method), the expression evaluator (eval), the function proxy     *)
(* (MatFunction) and the value codec (to_matobj / to_pyobj).               *)
(*                                                                         *)
(* Text is modelled as a sequence of one-character strings wherever the    *)
(* code looks inside it (split, join, "in", startswith); names the code    *)
(* only compares or passes on are plain strings.  The MATLAB engine is an  *)
(* external service: what it answers, and whether a call raises            *)
(* MatlabExecutionError, is chosen nondeterministically.                   *)
(***************************************************************************)
EXTENDS Integers, Sequences, FiniteSets, TLC

VARIABLES
    MATLAB_CLASS,   \* core.py _MATLAB_CLASS: class name -> synthesized type
    types,          \* the type objects made by type(...), in creation order
    instances,      \* the MatClass instances made by newclass(obj)
    workspace,      \* ENGINE.workspace: symbol -> handle
    functions,      \* the MatFunction objects constructed
    last            \* the last operation: its inputs, engine calls, outcome

vars == <<MATLAB_CLASS, types, instances, workspace, functions, last>>

-----------------------------------------------------------------------------
(* Bounds of the model *)

\* the number of MatClass instances created in Spec
MaxInst == 1

\* the number of handles wrapped into instances in SpecFactory
MaxWrapped == 2

-----------------------------------------------------------------------------
(* Text helpers: str.split and str.join on sequences of characters *)

RECURSIVE SplitAcc(_, _, _, _)
SplitAcc(s, sep, cur, acc) ==
    IF s = <<>> THEN Append(acc, cur)
    ELSE IF Head(s) = sep
         THEN SplitAcc(Tail(s), sep, <<>>, Append(acc, cur))
         ELSE SplitAcc(Tail(s), sep, Append(cur, Head(s)), acc)

\* s.split(sep)
Split(s, sep) == SplitAcc(s, sep, <<>>, <<>>)

RECURSIVE Join(_, _)
\* sep.join(parts)
Join(parts, sep) ==
    IF Len(parts) = 0 THEN <<>>
    ELSE IF Len(parts) = 1 THEN parts[1]
         ELSE parts[1] \o <<sep>> \o Join(Tail(parts), sep)

-----------------------------------------------------------------------------
(* The engine side: the classes the session knows, and what the            *)
(* introspection calls answer for them.                                    *)

ClsPkg   == <<"a", ".", "b">>      \* class b of package a
ClsFlat  == <<"a", "_", "b">>      \* class a_b, a handle-graphics style class
ClsPlain == <<"c">>
ClsFunctionHandle == <<"function_handle">>
ClsTable == <<"table">>

ProxyClasses == {ClsPkg, ClsFlat, ClsPlain}
EngineClasses == ProxyClasses \cup {ClsFunctionHandle, ClsTable}

\* the classes whose handles the session of Spec hands out
SessionClasses == {ClsPkg, ClsFlat, ClsFunctionHandle, ClsTable}

\* ENGINE.properties(_real_name, nargout=1)
EngineProperties(real_name) ==
    IF real_name = ClsPkg THEN <<"p">>
    ELSE IF real_name = ClsFlat THEN <<"q">>
    ELSE <<"p", "q">>

\* ENGINE.methods(_real_name, nargout=1)
EngineMethods(real_name) ==
    IF real_name = ClsPkg THEN <<"m", "plus">>
    ELSE IF real_name = ClsFlat THEN <<"get", "set">>
    ELSE <<"m", "double">>

MatlabExecutionError == "MatlabExecutionError"

\* one engine call, as the engine sees it
Call(fn, sym, key, lit) == [fn |-> fn, sym |-> sym, key |-> key, lit |-> lit]

-----------------------------------------------------------------------------
(* _const.py *)

\* SPECIAL_METHODS, each value already split at ";"
SPECIAL_METHODS ==
    ("plus" :> <<"__add__", "__radd__">>) @@
    ("minus" :> <<"__sub__", "__rsub__">>) @@
    ("times" :> <<"__mul__", "__rmul__">>) @@
    ("rdivide" :> <<"__truediv__">>) @@
    ("uminus" :> <<"__neg__">>) @@
    ("eq" :> <<"__eq__">>) @@
    ("gt" :> <<"__gt__">>) @@
    ("ge" :> <<"__ge__">>) @@
    ("lt" :> <<"__lt__">>) @@
    ("le" :> <<"__le__">>) @@
    ("ne" :> <<"__ne__">>) @@
    ("power" :> <<"__pow__">>) @@
    ("char" :> <<"__str__">>) @@
    ("double" :> <<"__float__", "double">>) @@
    ("and" :> <<"__and__">>) @@
    ("or" :> <<"__or__">>) @@
    ("not" :> <<"__not__">>)

-----------------------------------------------------------------------------
(* Type synthesis: the two setattr loops of translate_obj.  A type's       *)
(* attrs maps an attribute name to the descriptor stored under it; a later *)
(* setattr of the same name replaces the earlier one.                      *)

NoAttrs == [n \in {} |-> [kind |-> "", key |-> ""]]

RECURSIVE DefineProperties(_, _)
\* for prop_name in ...: setattr(newclass, prop_name, define_property(prop_name))
DefineProperties(attrs, names) ==
    IF names = <<>> THEN attrs
    ELSE DefineProperties(
            (Head(names) :> [kind |-> "property", key |-> Head(names)]) @@ attrs,
            Tail(names))

\* SPECIAL_METHODS.get(method_name, method_name).split(";")
PythonNames(method_name) ==
    IF method_name \in DOMAIN SPECIAL_METHODS
    THEN SPECIAL_METHODS[method_name]
    ELSE <<method_name>>

RECURSIVE SetMethod(_, _, _)
\* for n in method_name_in_python.split(";"): setattr(newclass, n, define_method(method_name))
SetMethod(attrs, pynames, method_name) ==
    IF pynames = <<>> THEN attrs
    ELSE SetMethod(
            (Head(pynames) :> [kind |-> "method", key |-> method_name]) @@ attrs,
            Tail(pynames), method_name)

RECURSIVE DefineMethods(_, _)
DefineMethods(attrs, names) ==
    IF names = <<>> THEN attrs
    ELSE DefineMethods(SetMethod(attrs, PythonNames(Head(names)), Head(names)),
                       Tail(names))

\* "_".join(_real_name.split("."))
NewClassName(real_name) == Join(Split(real_name, "."), "_")

-----------------------------------------------------------------------------
(* MatClass *)

Unbound == <<>>                     \* the instance has no _objname attribute

TypeOf(i) == types[instances[i].tid]

\* hasattr(self, name), for the names the synthesized type may carry
HasAttr(i, name) == name \in DOMAIN TypeOf(i).attrs

\* f"{clsname}{hex(id(self))}": id(self) is the identity of the live instance
ObjName(i) == <<TypeOf(i).name, i>>

\* MatClass.__init__
NewInstance(obj, tid) ==
    [obj |-> obj, tid |-> tid, objname |-> Unbound, nalloc |-> 0]

\* _send without the hasattr(self, "_objname") test: every call writes again
send_nocache(inst, ws, i, fail) ==
    LET objname == ObjName(i)
        inst1 == [inst EXCEPT ![i].objname = objname, ![i].nalloc = @ + 1]
        call == Call("workspace.__setitem__", objname, "", "")
    IN  IF fail
        THEN [inst |-> inst1, ws |-> ws, calls |-> <<call>>,
              err |-> MatlabExecutionError, objname |-> objname]
        ELSE [inst |-> inst1, ws |-> (objname :> inst[i].obj) @@ ws,
              calls |-> <<call>>, err |-> "", objname |-> objname]

\* _send as in matcall.py, the symbol named after a running count, and
\* without the hasattr(self, "_objname") test
send_counter(inst, ws, i, fail) ==
    LET objname == <<TypeOf(i).name, inst[i].nalloc>>
        inst1 == [inst EXCEPT ![i].objname = objname, ![i].nalloc = @ + 1]
        call == Call("workspace.__setitem__", objname, "", "")
    IN  IF fail
        THEN [inst |-> inst1, ws |-> ws, calls |-> <<call>>,
              err |-> MatlabExecutionError, objname |-> objname]
        ELSE [inst |-> inst1, ws |-> (objname :> inst[i].obj) @@ ws,
              calls |-> <<call>>, err |-> "", objname |-> objname]

\* MatClass._send: the state it leaves and the symbol it returns.  The
\* _objname attribute is set before the workspace write, which may raise.
\* nalloc counts the executions of the workspace write for the instance.
send(inst, ws, i, fail) ==
    IF inst[i].objname # Unbound
    THEN [inst |-> inst, ws |-> ws, calls |-> <<>>, err |-> "",
          objname |-> inst[i].objname]
    ELSE LET objname == ObjName(i)
             inst1 == [inst EXCEPT ![i].objname = objname,
                                   ![i].nalloc = @ + 1]
             call == Call("workspace.__setitem__", objname, "", "")
         IN  IF fail
             THEN [inst |-> inst1, ws |-> ws, calls |-> <<call>>,
                   err |-> MatlabExecutionError, objname |-> objname]
             ELSE [inst |-> inst1, ws |-> (objname :> inst[i].obj) @@ ws,
                   calls |-> <<call>>, err |-> "", objname |-> objname]

\* what an operation did: the engine calls it made, in order, the exception
\* it raised ("" for none) and the kind of value it returned
Op(op, inst, cls, key, val, calls, err, ret) ==
    [op |-> op, inst |-> inst, cls |-> cls, key |-> key, val |-> val,
     calls |-> calls, err |-> err, ret |-> ret]

-----------------------------------------------------------------------------
(* Host values handed to a property setter or a method *)

Value(type, ndim, text) == [type |-> type, ndim |-> ndim, text |-> text]

NoVal == Value("NoneType", 0, "None")

\* the values assigned to a property
HostValues ==
    { Value("bool", 0, "True"), Value("int", 0, "5"), Value("float", 0, "1.5"),
      Value("str", 0, "s"), Value("complex", 0, "1j"),
      Value("ndarray", 1, "[0, 1]"), Value("ndarray", 2, "[[0, 1]]"),
      Value("list", 0, "[[1], [2]]"), Value("MatClass", 0, "<obj>") }

\* the values passed or assigned to a method
ArgValues == { Value("int", 0, "5"), Value("complex", 0, "1j") }

\* the classes a value is an instance of: bool is a subclass of int
Mro(type) == IF type = "bool" THEN {"bool", "int"} ELSE {type}

\* isinstance(value, classes)
IsInstance(value, classes) == Mro(value.type) \cap classes # {}

\* str(value).lower() of a bool
StrLower(value) == IF value.text = "True" THEN "true" ELSE "false"

\* to_matobj(value) raises TypeError for a value of no supported kind
Convertible(value) ==
    IsInstance(value, {"ndarray", "list", "tuple", "float", "int", "str",
                       "bool", "dict", "MatStruct", "MatFunction", "MatClass",
                       "DataFrame", "Path", "MatObject"})

UnsupportedPropertyAssignment ==
    "AttributeError: Complicated property setting is not supported"
ImmutableMethod == "AttributeError: Cannot set value to methods."
UnsupportedType == "TypeError: Cannot convert to MATLAB object."

-----------------------------------------------------------------------------
(* translate_obj *)

\* a lookup that never finds the class
CacheHit_never(newclass_name) == FALSE

\* newclass_name in _MATLAB_CLASS
CacheHit(newclass_name) == newclass_name \in DOMAIN MATLAB_CLASS

translate_obj(real_name, fail) ==
    LET classCall == Call("feval", real_name, "class", "")
        newclass_name == NewClassName(real_name)
        obj == [cls |-> real_name, id |-> Len(instances) + 1]
        done(calls, err, ret) ==
            Op("translate_obj", 0, real_name, "", NoVal, calls, err, ret)
    IN
    \/ /\ fail = "class"
       /\ last' = done(<<classCall>>, MatlabExecutionError, "")
       /\ UNCHANGED <<MATLAB_CLASS, types, instances, workspace, functions>>
    \/ /\ fail = "none"
       /\ real_name = ClsFunctionHandle
       /\ last' = done(<<classCall, Call("func2str", real_name, "", ""),
                         Call("nargout", real_name, "", "")>>, "", "MatFunction")
       /\ UNCHANGED <<MATLAB_CLASS, types, instances, workspace, functions>>
    \/ /\ fail = "none"
       /\ real_name = ClsTable
       /\ last' = done(<<classCall, Call("table2struct", real_name, "", "")>>,
                       "", "DataFrame")
       /\ UNCHANGED <<MATLAB_CLASS, types, instances, workspace, functions>>
    \/ /\ fail = "none"
       /\ real_name \in ProxyClasses
       /\ CacheHit(newclass_name)
       /\ instances' = Append(instances,
                              NewInstance(obj, MATLAB_CLASS[newclass_name]))
       /\ last' = done(<<classCall>>, "", "MatClass")
       /\ UNCHANGED <<MATLAB_CLASS, types, workspace, functions>>
    \/ /\ fail \in {"none", "properties", "methods"}
       /\ real_name \in ProxyClasses
       /\ ~CacheHit(newclass_name)
       /\ LET tid == Len(types) + 1
              attrs1 == IF fail = "properties" THEN NoAttrs
                        ELSE DefineProperties(NoAttrs, EngineProperties(real_name))
              attrs2 == IF fail = "none"
                        THEN DefineMethods(attrs1, EngineMethods(real_name))
                        ELSE attrs1
              calls == <<classCall, Call("properties", real_name, "", "")>>
                       \o (IF fail = "properties" THEN <<>>
                           ELSE <<Call("methods", real_name, "", "")>>)
          IN  /\ types' = Append(types, [name |-> newclass_name,
                                         real_name |-> real_name,
                                         attrs |-> attrs2])
              /\ MATLAB_CLASS' = (newclass_name :> tid) @@ MATLAB_CLASS
              /\ instances' = IF fail = "none"
                              THEN Append(instances, NewInstance(obj, tid))
                              ELSE instances
              /\ last' = done(calls,
                              IF fail = "none" THEN "" ELSE MatlabExecutionError,
                              IF fail = "none" THEN "MatClass" ELSE "")
              /\ UNCHANGED <<workspace, functions>>

-----------------------------------------------------------------------------
(* define_property *)

IsProperty(i, key) ==
    key \in DOMAIN TypeOf(i).attrs /\ TypeOf(i).attrs[key].kind = "property"

IsMethod(i, key) ==
    key \in DOMAIN TypeOf(i).attrs /\ TypeOf(i).attrs[key].kind = "method"

\* the engine function a synthesized method attribute forwards to
Forward(i, attr) == TypeOf(i).attrs[attr].key

\* define_property.getter
getter(i, key, fail) ==
    /\ i \in DOMAIN instances
    /\ IsProperty(i, key)
    /\ IF HasAttr(i, "get")
       THEN /\ fail \in {"none", "call"}
            /\ UNCHANGED instances
            /\ last' = Op("getter", i, Unbound, key, NoVal,
                          <<Call("feval", Unbound, Forward(i, "get"), key)>>,
                          IF fail = "call" THEN MatlabExecutionError ELSE "",
                          IF fail = "call" THEN "" ELSE "value")
            /\ UNCHANGED workspace
       ELSE LET s == send(instances, workspace, i, fail = "send")
            IN  /\ fail \in {"none", "call"}
                            \cup (IF instances[i].objname = Unbound
                                  THEN {"send"} ELSE {})
                /\ instances' = s.inst
                /\ workspace' = s.ws
                /\ last' =
                     IF s.err # ""
                     THEN Op("getter", i, Unbound, key, NoVal, s.calls, s.err, "")
                     ELSE Op("getter", i, Unbound, key, NoVal,
                             s.calls \o <<Call("eval", s.objname, key, "")>>,
                             IF fail = "call" THEN MatlabExecutionError ELSE "",
                             IF fail = "call" THEN "" ELSE "value")
    /\ UNCHANGED <<MATLAB_CLASS, types, functions>>

\* the text to the right of "=" in the assignment the setter evaluates
Literal(value) ==
    IF IsInstance(value, {"bool"}) THEN StrLower(value)
    ELSE IF IsInstance(value, {"str"}) THEN "'" \o value.text \o "'"
    ELSE value.text

\* the elif chain without the test of value.ndim
Inline_anyarray(value) ==
    \/ IsInstance(value, {"bool"})
    \/ IsInstance(value, {"int", "float"})
    \/ IsInstance(value, {"str"})
    \/ IsInstance(value, {"ndarray"})

\* the elif chain of define_property.setter: can the value be written inline
Inline(value) ==
    \/ IsInstance(value, {"bool"})
    \/ IsInstance(value, {"int", "float"})
    \/ IsInstance(value, {"str"})
    \/ (IsInstance(value, {"ndarray"}) /\ value.ndim = 1)

\* define_property.setter
setter(i, key, value, fail) ==
    /\ i \in DOMAIN instances
    /\ IsProperty(i, key)
    /\ LET s == send(instances, workspace, i, fail = "send")
           done(calls, err) == Op("setter", i, Unbound, key, value, calls, err,
                                  IF err = "" THEN "None" ELSE "")
       IN  /\ fail \in {"none", "call"}
                       \cup (IF instances[i].objname = Unbound
                             THEN {"send"} ELSE {})
           /\ instances' = s.inst
           /\ workspace' = s.ws
           /\ last' =
                IF s.err # "" THEN done(s.calls, s.err)
                ELSE IF HasAttr(i, "set")
                THEN IF ~Convertible(value)
                     THEN done(s.calls, UnsupportedType)
                     ELSE done(s.calls \o <<Call("feval", Unbound,
                                                 Forward(i, "set"), key)>>,
                               IF fail = "call" THEN MatlabExecutionError ELSE "")
                ELSE IF Inline(value)
                THEN done(s.calls \o <<Call("eval", s.objname, key,
                                            Literal(value))>>,
                          IF fail = "call" THEN MatlabExecutionError ELSE "")
                ELSE done(s.calls, UnsupportedPropertyAssignment)
    /\ UNCHANGED <<MATLAB_CLASS, types, functions>>

-----------------------------------------------------------------------------
(* define_method *)

\* a method that sends the handle to the workspace before it calls
method_call_sends(i, attr, arg, fail) ==
    /\ i \in DOMAIN instances
    /\ IsMethod(i, attr)
    /\ LET s == send(instances, workspace, i, FALSE)
       IN  /\ instances' = s.inst
           /\ workspace' = s.ws
           /\ last' = Op("method_call", i, Unbound, attr, arg,
                         s.calls \o <<Call("feval", Unbound, Forward(i, attr),
                                           arg.text)>>,
                         IF fail THEN MatlabExecutionError ELSE "",
                         IF fail THEN "" ELSE "value")
    /\ UNCHANGED <<MATLAB_CLASS, types, functions>>

\* define_method.getter.func: obj.attr(arg)
method_call(i, attr, arg, fail) ==
    /\ i \in DOMAIN instances
    /\ IsMethod(i, attr)
    /\ last' = IF ~Convertible(arg)
               THEN Op("method_call", i, Unbound, attr, arg, <<>>,
                       UnsupportedType, "")
               ELSE Op("method_call", i, Unbound, attr, arg,
                       <<Call("feval", Unbound, Forward(i, attr), arg.text)>>,
                       IF fail THEN MatlabExecutionError ELSE "",
                       IF fail THEN "" ELSE "value")
    /\ UNCHANGED <<MATLAB_CLASS, types, instances, workspace, functions>>

\* a setter that stores the value in place of the method
method_setter_stores(i, attr, value) ==
    /\ i \in DOMAIN instances
    /\ IsMethod(i, attr)
    /\ types' = [types EXCEPT ![instances[i].tid].attrs[attr] =
                                 [kind |-> "value", key |-> value.text]]
    /\ last' = Op("method_setter", i, Unbound, attr, value, <<>>, "", "None")
    /\ UNCHANGED <<MATLAB_CLASS, instances, workspace, functions>>

\* define_method.setter: obj.attr = value
method_setter(i, attr, value) ==
    /\ i \in DOMAIN instances
    /\ IsMethod(i, attr)
    /\ last' = Op("method_setter", i, Unbound, attr, value, <<>>,
                  ImmutableMethod, "")
    /\ UNCHANGED <<MATLAB_CLASS, types, instances, workspace, functions>>

-----------------------------------------------------------------------------
(* The other proxy-layer operations on an instance *)

\* MatClass.__hash__: hash(self._objname)
hash(i) ==
    /\ i \in DOMAIN instances
    /\ last' = IF instances[i].objname = Unbound
               THEN Op("hash", i, Unbound, "", NoVal, <<>>,
                       "AttributeError: _objname", "")
               ELSE Op("hash", i, instances[i].objname, "", NoVal, <<>>, "", "int")
    /\ UNCHANGED <<MATLAB_CLASS, types, instances, workspace, functions>>

\* to_matobj(instance) as the argument of an engine call: f(instance)
pass_instance(i, fail) ==
    /\ i \in DOMAIN instances
    /\ last' = Op("pass_instance", i, Unbound, "", Value("MatClass", 0, "<obj>"),
                  <<Call("feval", Unbound, "f", "<obj>")>>,
                  IF fail THEN MatlabExecutionError ELSE "",
                  IF fail THEN "" ELSE "value")
    /\ UNCHANGED <<MATLAB_CLASS, types, instances, workspace, functions>>

-----------------------------------------------------------------------------
(* The class proxy layer as a state machine *)

Init ==
    /\ MATLAB_CLASS = [k \in {} |-> 0]
    /\ types = <<>>
    /\ instances = <<>>
    /\ workspace = [k \in {} |-> 0]
    /\ functions = <<>>
    /\ last = Op("init", 0, Unbound, "", NoVal, <<>>, "", "")

AttrNames == {"p", "q", "m", "get", "set", "double", "__float__", "__add__",
              "__radd__"}

Fails == {"none", "class", "properties", "methods"}

\* translate_obj reaches new = newclass(obj)
Creates(real_name, fail) == fail = "none" /\ real_name \in ProxyClasses

Next ==
    \/ \E c \in SessionClasses, f \in Fails :
          /\ Creates(c, f) => Len(instances) < MaxInst
          /\ translate_obj(c, f)
    \/ \E i \in 1..MaxInst, k \in AttrNames, f \in {"none", "send", "call"} :
          getter(i, k, f)
    \/ \E i \in 1..MaxInst, k \in AttrNames, v \in HostValues,
          f \in {"none", "send", "call"} : setter(i, k, v, f)
    \/ \E i \in 1..MaxInst, k \in AttrNames, v \in ArgValues, f \in BOOLEAN :
          method_call(i, k, v, f)
    \/ \E i \in 1..MaxInst, k \in AttrNames, v \in ArgValues :
          method_setter(i, k, v)
    \/ \E i \in 1..MaxInst : hash(i)
    \/ \E i \in 1..MaxInst, f \in BOOLEAN : pass_instance(i, f)

Spec == Init /\ [][Next]_vars

-----------------------------------------------------------------------------
(* The factory alone, over every class of the engine *)

NextFactory ==
    \/ \E c \in EngineClasses, f \in Fails :
          /\ Creates(c, f) => Len(instances) < MaxWrapped
          /\ translate_obj(c, f)
    \/ \E i \in 1..MaxWrapped, f \in BOOLEAN : pass_instance(i, f)

SpecFactory == Init /\ [][NextFactory]_vars

-----------------------------------------------------------------------------
(* eval: the expression evaluator *)

\* the longest expression evaluated
MaxLen == 3

\* the characters eval looks for, and a letter
EvalChars == {";", "=", "@", "(", " ", "a"}

Texts == UNION {[1..n -> EvalChars] : n \in 0..MaxLen}

\* sub in s
Contains(s, sub) ==
    \E k \in 1..(Len(s) - Len(sub) + 1) : SubSeq(s, k, k + Len(sub) - 1) = sub

\* the if/elif chain with "@" tested after "("
Branch_callfirst(matlab_input) ==
    IF Contains(matlab_input, <<";">>) THEN "separator"
    ELSE IF Contains(matlab_input, <<"=">>)
         THEN IF Contains(matlab_input, <<"=", "=">>) THEN "equality"
              ELSE "assignment"
    ELSE IF Contains(matlab_input, <<"(">>) THEN "call"
    ELSE IF Contains(matlab_input, <<"@">>) THEN "lambda"
    ELSE IF Contains(matlab_input, <<" ">>) THEN "space"
    ELSE "plain"

\* the branch of the if/elif chain that eval takes when nargout < 0
Branch(matlab_input) ==
    IF Contains(matlab_input, <<";">>) THEN "separator"
    ELSE IF Contains(matlab_input, <<"=">>)
         THEN IF Contains(matlab_input, <<"=", "=">>) THEN "equality"
              ELSE "assignment"
    ELSE IF Contains(matlab_input, <<"@">>) THEN "lambda"
    ELSE IF Contains(matlab_input, <<"(">>) THEN "call"
    ELSE IF Contains(matlab_input, <<" ">>) THEN "space"
    ELSE "plain"

\* funcname, _ = matlab_input.split("(", 1)
FuncName(matlab_input) == Split(matlab_input, "(")[1]

\* an engine call of eval or MatFunction: its text, the nargout keyword it
\* was given and, for ENGINE.nargout, the arity the engine answered
ECall(fn, text, nargout, reply) ==
    [fn |-> fn, text |-> text, nargout |-> nargout, reply |-> reply]

EvalOp(matlab_input, nargout, calls, err, ret) ==
    [op |-> "eval", input |-> matlab_input, nargout |-> nargout,
     calls |-> calls, err |-> err, ret |-> ret]

\* eval(matlab_input, nargout); declared is what ENGINE.nargout answers
eval(matlab_input, nargout, declared, fail) ==
    /\ last' =
         IF Len(matlab_input) = 0
         THEN EvalOp(matlab_input, nargout, <<>>, "", "None")
         ELSE LET b == IF nargout < 0 THEN Branch(matlab_input) ELSE "given"
                  query == IF b = "call"
                           THEN <<ECall("nargout", FuncName(matlab_input), 1,
                                        declared)>>
                           ELSE <<>>
                  n == CASE b = "given" -> nargout
                         [] b = "separator" -> 0
                         [] b = "assignment" -> 0
                         [] b = "equality" -> 1
                         [] b = "lambda" -> 1
                         [] b = "call" -> IF declared < 0 THEN 1 ELSE declared
                         [] b = "space" -> 0
                         [] b = "plain" -> 1
              IN  IF b = "call" /\ fail = "nargout"
                  THEN EvalOp(matlab_input, nargout, query,
                              MatlabExecutionError, "")
                  ELSE EvalOp(matlab_input, nargout,
                              query \o <<ECall("eval", matlab_input, n, 0)>>,
                              IF fail = "eval" THEN MatlabExecutionError ELSE "",
                              IF fail = "eval" THEN ""
                              ELSE IF n = 0 THEN "None" ELSE "value")
    /\ UNCHANGED <<MATLAB_CLASS, types, instances, workspace, functions>>

\* the nargout arguments given, -1 the default
Nargouts == {-1, 0, 1, 2}

\* the arities ENGINE.nargout answers, negative for a variable number
Declared == {-1, 0, 2}

\* a call of eval that has not run yet
EvalArgs(matlab_input, nargout) ==
    [op |-> "call eval", input |-> matlab_input, nargout |-> nargout]

InitEval ==
    /\ MATLAB_CLASS = [k \in {} |-> 0]
    /\ types = <<>>
    /\ instances = <<>>
    /\ workspace = [k \in {} |-> 0]
    /\ functions = <<>>
    /\ last \in {EvalArgs(t, n) : t \in Texts, n \in Nargouts}

NextEval ==
    \E d \in Declared, f \in {"none", "nargout", "eval"} :
        /\ last.op = "call eval"
        /\ eval(last.input, last.nargout, d, f)

SpecEval == InitEval /\ [][NextEval]_vars

-----------------------------------------------------------------------------
(* MatFunction: the function proxy *)

\* the number of MatFunction objects constructed
MaxFunc == 2

\* s.startswith(c)
StartsWith(s, c) == Len(s) > 0 /\ s[1] = c

RECURSIVE LStrip(_, _)
\* s.lstrip(c)
LStrip(s, c) == IF StartsWith(s, c) THEN LStrip(Tail(s), c) ELSE s

\* a matlab.object that is a function handle; text is what func2str answers
FunctionHandle(text) == [type |-> "MatObject", text |-> text]

\* the name arguments: the text of a lambda, a function name, two function
\* handles, and a value that is neither str nor matlab.object
NameArgs ==
    { [type |-> "str", text |-> <<"@", "f">>],
      [type |-> "str", text |-> <<"f">>],
      FunctionHandle(<<"f">>),
      FunctionHandle(<<"@", "f">>),
      [type |-> "int", text |-> <<>>] }

\* "determine nargout" without the fallback for a negative declared arity
ResolveNargout_nofallback(name, nargout, declared) ==
    IF nargout < 0
    THEN IF StartsWith(name, "@") THEN 1 ELSE declared
    ELSE nargout

\* MatFunction.__init__, "determine nargout": name is self.name
ResolveNargout(name, nargout, declared) ==
    IF nargout < 0
    THEN IF StartsWith(name, "@") THEN 1
         ELSE IF declared < 0 THEN 1 ELSE declared
    ELSE nargout

FunctionOp(op, f, name, nargout, calls, err, ret) ==
    [op |-> op, f |-> f, name |-> name, nargout |-> nargout,
     calls |-> calls, err |-> err, ret |-> ret]

\* MatFunction(name, nargout): exists is hasattr(ENGINE, name), declared is
\* what ENGINE.nargout answers
MatFunction_init(name, nargout, exists, declared, fail) ==
    LET isstr == name.type = "str"
        lambda == isstr /\ StartsWith(name.text, "@")
        ishandle == name.type = "MatObject"
        \* the calls that determine fhandle and name
        calls1 == IF lambda THEN <<ECall("eval", name.text, 1, 0)>>
                  ELSE IF isstr
                  THEN <<ECall("eval", <<"@">> \o name.text, 1, 0)>>
                  ELSE <<ECall("func2str", name.text, 1, 0)>>
        fhandle == IF isstr THEN FunctionHandle(name.text) ELSE name
        selfname == name.text
        pyname == IF lambda THEN Tail(name.text)
                  ELSE IF isstr THEN name.text
                  ELSE LStrip(name.text, "@")
        asks == nargout < 0 /\ ~StartsWith(selfname, "@")
        calls2 == IF asks THEN <<ECall("nargout", name.text, 1, declared)>>
                  ELSE <<>>
        raise(calls, err) ==
            /\ last' = FunctionOp("MatFunction", 0, name, nargout, calls, err, "")
            /\ UNCHANGED functions
    IN
    /\ IF ~isstr /\ ~ishandle
       THEN raise(<<>>, "TypeError: 'name' must be str or matlab.object")
       ELSE IF isstr /\ ~lambda /\ ~exists
       THEN raise(<<>>, "NameError: Unrecognized function")
       ELSE IF fail \in {"eval", "func2str"}
       THEN raise(calls1, MatlabExecutionError)
       ELSE IF asks /\ fail = "nargout"
       THEN raise(calls1 \o calls2, MatlabExecutionError)
       ELSE /\ functions' = Append(functions,
                   [name |-> selfname, pyname |-> pyname, fhandle |-> fhandle,
                    nargout |-> ResolveNargout(selfname, nargout, declared),
                    doc |-> [cached |-> FALSE, text |-> <<>>]])
            /\ last' = FunctionOp("MatFunction", Len(functions) + 1, name,
                                  nargout, calls1 \o calls2, "", "MatFunction")
    /\ UNCHANGED <<MATLAB_CLASS, types, instances, workspace>>

\* MatFunction.__call__ with one argument
MatFunction_call(f, arg, fail) ==
    /\ f \in DOMAIN functions
    /\ last' =
         IF ~Convertible(arg)
         THEN FunctionOp("__call__", f, functions[f].fhandle, 0, <<>>,
                         UnsupportedType, "")
         ELSE FunctionOp("__call__", f, functions[f].fhandle, 0,
                         <<ECall("feval", functions[f].fhandle.text,
                                 functions[f].nargout, 0)>>,
                         IF fail THEN MatlabExecutionError ELSE "",
                         IF fail THEN "" ELSE "value")
    /\ UNCHANGED <<MATLAB_CLASS, types, instances, workspace, functions>>

NextFunction ==
    \/ \E name \in NameArgs, n \in Nargouts, e \in BOOLEAN, d \in Declared,
          f \in {"none", "eval", "func2str", "nargout"} :
          /\ Len(functions) < MaxFunc
          /\ MatFunction_init(name, n, e, d, f)
    \/ \E f \in 1..MaxFunc, arg \in ArgValues, fail \in BOOLEAN :
          MatFunction_call(f, arg, fail)

SpecFunction == Init /\ [][NextFunction]_vars

-----------------------------------------------------------------------------
(* MatFunction.__doc__ and remove_html *)

\* the number of MatFunction objects whose documentation is read
MaxDocFunc == 1

\* line.count(c)
Count(line, c) == Cardinality({n \in DOMAIN line : line[n] = c})

RECURSIVE Sub(_)
\* _HTML_PATTERN.sub("", line): from each "<", the text up to the next ">"
Sub(line) ==
    IF line = <<>> THEN <<>>
    ELSE IF Head(line) = "<" /\ \E n \in DOMAIN line : line[n] = ">"
    THEN LET close == CHOOSE n \in DOMAIN line :
                          /\ line[n] = ">"
                          /\ \A m \in 1..(n - 1) : line[m] # ">"
         IN  Sub(SubSeq(line, close + 1, Len(line)))
    ELSE <<Head(line)>> \o Sub(Tail(line))

\* the lines remove_html rewrites
HasMarkup(line) ==
    /\ Contains(line, <<"<", "/">>)
    /\ Count(line, "<") = Count(line, ">")
    /\ Count(line, "<") > 1

remove_html(s) ==
    LET disps == Split(s, "\n")
    IN  Join([i \in DOMAIN disps |->
                 IF HasMarkup(disps[i]) THEN Sub(disps[i]) ELSE disps[i]],
             "\n")

\* the number of pieces a captured console text is put together from
MaxPieces == 4

\* the pieces: an opening and a closing tag, a word, a comparison operator
\* of either direction, and a line break
Pieces == { <<"<", "a", ">">>, <<"<", "/", "a", ">">>, <<"x">>, <<"<">>,
            <<">">>, <<"\n">> }

RECURSIVE ConsoleTexts(_)
\* the texts made of at most n pieces
ConsoleTexts(n) ==
    IF n = 0 THEN {<<>>}
    ELSE LET shorter == ConsoleTexts(n - 1)
         IN  shorter \cup {t \o p : t \in shorter, p \in Pieces}

\* s: the text remove_html was given, ret: what it returned, n: how many
\* times it has been applied, each time to what it returned before
StripOp(op, s, ret, n) == [op |-> op, s |-> s, ret |-> ret, n |-> n]

InitStrip ==
    /\ MATLAB_CLASS = [k \in {} |-> 0]
    /\ types = <<>>
    /\ instances = <<>>
    /\ workspace = [k \in {} |-> 0]
    /\ functions = <<>>
    /\ last \in {StripOp("evalc", <<>>, t, 0) : t \in ConsoleTexts(MaxPieces)}

\* remove_html(doc), and remove_html of its result
Strip ==
    /\ last.n < 2
    /\ last' = StripOp("remove_html", last.ret, remove_html(last.ret),
                       last.n + 1)
    /\ UNCHANGED <<MATLAB_CLASS, types, instances, workspace, functions>>

NextStrip == Strip

SpecStrip == InitStrip /\ [][NextStrip]_vars

\* what evalc("help ...") answers: plain text, a hyperlink, a comparison, and
\* two lines of which the first is a hyperlink
PlainHelp == <<"x">>
LinkHelp == <<"<", "a", ">", "x", "<", "/", "a", ">">>
HelpTexts ==
    {PlainHelp, LinkHelp, <<"x", "<", "y">>,
     <<"<", "a", ">", "<", "/", "a", ">", "\n", "x", ">", "y">>}

\* a __doc__ that is computed on every access
DocCached_never(f) == FALSE

\* cached_property: "__doc__" is in the instance's __dict__
DocCached(f) == functions[f].doc.cached

\* f.__doc__
MatFunction_doc(f, reply, fail) ==
    /\ f \in DOMAIN functions
    /\ LET query == ECall("evalc", <<"h", "e", "l", "p", " ">>
                                   \o functions[f].name, 1, reply)
           done(calls, err, ret) ==
               FunctionOp("__doc__", f, functions[f].fhandle, 0, calls, err,
                          ret)
       IN  IF DocCached(f)
           THEN /\ last' = done(<<>>, "", functions[f].doc.text)
                /\ UNCHANGED functions
           ELSE IF fail
           THEN /\ last' = done(<<query>>, MatlabExecutionError, <<>>)
                /\ UNCHANGED functions
           ELSE /\ functions' =
                      [functions EXCEPT ![f].doc =
                          [cached |-> TRUE, text |-> remove_html(reply)]]
                /\ last' = done(<<query>>, "", remove_html(reply))
    /\ UNCHANGED <<MATLAB_CLASS, types, instances, workspace>>

NextDoc ==
    \/ \E name \in NameArgs, n \in Nargouts, e \in BOOLEAN, d \in Declared,
          f \in {"none", "eval", "func2str", "nargout"} :
          /\ Len(functions) < MaxDocFunc
          /\ MatFunction_init(name, n, e, d, f)
    \/ \E f \in 1..MaxDocFunc, arg \in ArgValues, fail \in BOOLEAN :
          MatFunction_call(f, arg, fail)
    \/ \E f \in 1..MaxDocFunc, reply \in HelpTexts, fail \in BOOLEAN :
          MatFunction_doc(f, reply, fail)

SpecDoc == Init /\ [][NextDoc]_vars

-----------------------------------------------------------------------------
(* to_pyobj: decoding engine values *)

\* the largest number of rows and of columns of an engine array
MaxDim == 2

\* MATLAB_ARRAYS, by the name of the matlab class
MATLAB_ARRAYS ==
    {"double", "single", "uint8", "int8", "uint16", "int16",
     "uint32", "int32", "uint64", "int64", "logical"}

BASIC_TYPES == {"float", "int", "str", "bool"}

\* the host type of one element of an engine array
ElementType(cls, is_complex) ==
    IF is_complex THEN "complex"
    ELSE IF cls \in {"double", "single"} THEN "float"
    ELSE IF cls = "logical" THEN "bool"
    ELSE "int"

Scalar(type, val) == [type |-> type, val |-> val]

\* a two-dimensional engine array: rows[i][j] is what matobj[i-1][j-1] reads
MLArray(cls, is_complex, rows) ==
    [type |-> "MLArray", cls |-> cls, is_complex |-> is_complex, ndim |-> 2,
     size |-> <<Len(rows), Len(rows[1])>>, rows |-> rows]

Rows == UNION {[1..r -> [1..c -> {0, 1}]] : r \in 1..MaxDim, c \in 1..MaxDim}

\* only double and single carry the is_complex flag
EngineArrays ==
    {MLArray(cls, FALSE, rows) : cls \in MATLAB_ARRAYS, rows \in Rows}
    \cup {MLArray(cls, TRUE, rows) : cls \in {"double", "single"}, rows \in Rows}

\* an engine array of three dimensions: rows[i][j][k]
MLArray3(cls, is_complex, size, rows) ==
    [type |-> "MLArray", cls |-> cls, is_complex |-> is_complex, ndim |-> 3,
     size |-> size, rows |-> rows]

\* every element of a cube tells its own place
Cube(r, c, d) ==
    [i \in 1..r |-> [j \in 1..c |-> [k \in 1..d |-> 100 * i + 10 * j + k]]]

\* the engine drops trailing dimensions of length 1: the last is 2 or more
EngineArrays3 ==
    {MLArray3(cls, FALSE, <<r, c, d>>, Cube(r, c, d)) :
        cls \in MATLAB_ARRAYS, r \in 1..MaxDim, c \in 1..MaxDim,
        d \in 2..MaxDim}

\* values to_pyobj has no branch for: a complex, which is what the engine
\* hands back for a complex scalar, and a numpy array
Unrecognised ==
    {[type |-> "complex", val |-> 1],
     [type |-> "ndarray", dtype |-> "float64", shape |-> <<2>>,
      data |-> <<0, 1>>]}

None == [type |-> "NoneType"]

\* the values the engine hands back: None, basic values, arrays, a cell of
\* two values and a struct of one field
EngineValues ==
    LET flat == {None, Scalar("float", 1), Scalar("bool", 1), Scalar("str", 1)}
                \cup {a \in EngineArrays : a.rows \in {<<<<1>>>>, <<<<0, 1>>>>}}
    IN  EngineArrays \cup EngineArrays3 \cup Unrecognised \cup flat
        \cup {[type |-> "list", items |-> <<x, y>>] :
                 x \in {Scalar("float", 1)}, y \in flat}
        \cup {[type |-> "dict", keys |-> <<"k">>, items |-> <<x>>] : x \in flat}

\* DTYPE_MAP: numpy dtype -> the matlab class and its is_complex flag
DTYPE_MAP ==
    [int8 |-> <<"int8", FALSE>>, int16 |-> <<"int16", FALSE>>,
     int32 |-> <<"int32", FALSE>>, int64 |-> <<"int64", FALSE>>,
     float16 |-> <<"single", FALSE>>, float32 |-> <<"single", FALSE>>,
     float64 |-> <<"double", FALSE>>,
     complex64 |-> <<"single", TRUE>>, complex128 |-> <<"double", TRUE>>,
     uint8 |-> <<"uint8", FALSE>>, uint16 |-> <<"uint16", FALSE>>,
     uint32 |-> <<"uint32", FALSE>>, uint64 |-> <<"uint64", FALSE>>,
     bool |-> <<"logical", FALSE>>]

\* DTYPE_MAP_INV: matlab class -> numpy dtype
DTYPE_MAP_INV ==
    [int8 |-> "int8", int16 |-> "int16", int32 |-> "int32", int64 |-> "int64",
     single |-> "float32", double |-> "float64",
     uint8 |-> "uint8", uint16 |-> "uint16", uint32 |-> "uint32",
     uint64 |-> "uint64", logical |-> "bool"]

\* the dtype of the class alone
ArrayDtype_real(matobj) == DTYPE_MAP_INV[matobj.cls]

\* the dtype numpy reads off an engine array: the element type of its class,
\* and the complex type of the same width when is_complex is set
ArrayDtype(matobj) ==
    IF matobj.is_complex
    THEN IF matobj.cls = "single" THEN "complex64" ELSE "complex128"
    ELSE DTYPE_MAP_INV[matobj.cls]

\* np.array(matobj)
nparray(matobj) ==
    [type |-> "ndarray", dtype |-> ArrayDtype(matobj),
     kind |-> ElementType(matobj.cls, matobj.is_complex),
     shape |-> matobj.size, data |-> matobj.rows]

\* arr[0]
FirstRow(arr) == [arr EXCEPT !.shape = Tail(arr.shape), !.data = arr.data[1]]

\* arr[:, 0]
FirstColumn(arr) ==
    [arr EXCEPT !.shape = <<arr.shape[1]>>,
                !.data = [i \in 1..arr.shape[1] |-> arr.data[i][1]]]

\* isinstance(matobj[0][0], BASIC_TYPES)
IsBasicElement(matobj) ==
    ElementType(matobj.cls, matobj.is_complex) \in BASIC_TYPES

\* an exception leaving a conversion
Raise(err) == [type |-> "raise", err |-> err]

\* an exception whose message names a type or a dtype
RaiseNaming(err, name) == [type |-> "raise", err |-> err, name |-> name]

\* a comprehension that lets every element pass
Raised_none(items) == {}

\* the elements of a comprehension that raised
Raised(items) == {n \in DOMAIN items : items[n].type = "raise"}

\* a comprehension stops at the first element that raises
FirstRaised(items) ==
    items[CHOOSE n \in Raised(items) : \A m \in Raised(items) : n <= m]

\* a str, with its text
Str(text) == [type |-> "str", text |-> text]

NoAppend == "AttributeError: object has no attribute 'append'"

\* MatStruct.__init__ before the loop: _all is the only attribute
EmptyStruct == [type |-> "MatStruct", all |-> <<>>, attrs |-> <<>>]

\* __setattr__ putting the key in front of _all
MatStruct_setattr_prepend(self, key, value) ==
    [self EXCEPT !.all = <<[type |-> "str", text |-> key]>> \o self.all,
                 !.attrs = (key :> value) @@ self.attrs]

\* MatStruct.__setattr__: the attribute is stored, then the key is appended
\* to whatever self._all is by then
MatStruct_setattr(self, key, value) ==
    IF key = "_all"
    THEN IF value.type = "list"
         THEN [self EXCEPT !.all = Append(value.items, Str(key))]
         ELSE Raise(NoAppend)
    ELSE [self EXCEPT !.all = Append(self.all, Str(key)),
                      !.attrs = (key :> value) @@ self.attrs]

NoItemAssignment ==
    "TypeError: 'MatStruct' object does not support item assignment"

\* self[key] = value: the class defines __getitem__ but no __setitem__, so
\* the interpreter raises and the object is left as it was
MatStruct_setitem(self, key, value) == Raise(NoItemAssignment)

\* MatStruct.__getitem__
MatStruct_getitem(self, key) ==
    IF \E n \in DOMAIN self.all : self.all[n] = Str(key)
    THEN self.attrs[key]
    ELSE RaiseNaming("KeyError", key)

RECURSIVE MatStruct_fill(_, _, _, _)
\* the loop of MatStruct.__init__ from item n of the dict on
MatStruct_fill(self, keys, items, n) ==
    IF self.type = "raise" \/ n > Len(keys) THEN self
    ELSE MatStruct_fill(MatStruct_setattr(self, keys[n], items[n]),
                        keys, items, n + 1)

\* MatStruct(dict_)
MatStruct_init(keys, items) == MatStruct_fill(EmptyStruct, keys, items, 1)

\* MatStruct.__iter__
MatStruct_iter(self) ==
    [n \in DOMAIN self.all |->
        <<self.all[n].text, self.attrs[self.all[n].text]>>]

\* a column of a DataFrame
Column(dtype, data) == [dtype |-> dtype, data |-> data]

\* the handle of a table of the engine, with its variable names and columns
TableHandle(keys, cols) ==
    [type |-> "MatObject", cls |-> "table", keys |-> keys, cols |-> cols]

AllScalars ==
    "ValueError: If using all scalar values, you must pass an index"
UnequalLength == "ValueError: All arrays must be of the same length"

\* the dtype pandas gives a column filled with a host scalar
ScalarDtype(type) ==
    IF type = "float" THEN "float64"
    ELSE IF type = "int" THEN "int64"
    ELSE IF type = "bool" THEN "bool"
    ELSE IF type = "complex" THEN "complex128"
    ELSE "object"

\* pd.DataFrame(_dict): one-dimensional arrays are the columns, a scalar is
\* repeated to their length, and scalars alone are refused
DataFrame(keys, vals) ==
    LET arrs == {n \in DOMAIN vals : vals[n].type = "ndarray"}
        lens == {vals[n].shape : n \in arrs}
    IN  IF arrs = {} THEN Raise(AllScalars)
        ELSE IF Cardinality(lens) > 1 \/ \E sh \in lens : Len(sh) # 1
        THEN Raise(UnequalLength)
        ELSE LET len == (CHOOSE sh \in lens : TRUE)[1]
             IN  [type |-> "DataFrame", keys |-> keys,
                  cols |-> [n \in DOMAIN vals |->
                      IF n \in arrs
                      THEN Column(vals[n].dtype, vals[n].data)
                      ELSE Column(ScalarDtype(vals[n].type),
                                  [i \in 1..len |-> vals[n].val])]]

NoSize == "AttributeError: object has no attribute 'size'"

\* matobj.size can be read: engine arrays and handles answer it, and so does
\* a numpy array; a complex or a set does not
HasSize(matobj) == matobj.type \in {"MLArray", "MatObject", "ndarray"}

RECURSIVE to_pyobj(_)
\* to_pyobj; of the handles, a table is decoded here, and for any other the
\* result stands for the proxy translate_obj builds
to_pyobj(matobj) ==
    IF matobj.type = "NoneType" THEN matobj
    ELSE IF matobj.type \in BASIC_TYPES THEN matobj
    ELSE IF matobj.type \in {"list", "tuple"}
    THEN LET items == [n \in DOMAIN matobj.items |->
                          to_pyobj(matobj.items[n])]
         IN  IF Raised(items) # {} THEN FirstRaised(items)
             ELSE [type |-> "list", items |-> items]
    ELSE IF matobj.type = "dict"
    THEN LET items == [n \in DOMAIN matobj.items |->
                          to_pyobj(matobj.items[n])]
         IN  IF Raised(items) # {} THEN FirstRaised(items)
             ELSE MatStruct_init(matobj.keys, items)
    ELSE IF ~HasSize(matobj) THEN Raise(NoSize)
    ELSE IF /\ matobj.type = "MLArray"
            /\ matobj.size = <<1, 1>>
            /\ IsBasicElement(matobj)
    THEN Scalar(ElementType(matobj.cls, matobj.is_complex), matobj.rows[1][1])
    ELSE IF matobj.type = "MLArray" /\ matobj.cls \in MATLAB_ARRAYS
    THEN LET out == nparray(matobj)
         IN  IF out.shape[1] = 1 THEN FirstRow(out)
             ELSE IF Len(out.shape) = 2 /\ out.shape[2] = 1
             THEN FirstColumn(out)
             ELSE out
    ELSE IF matobj.type = "MatObject"
    THEN IF matobj.cls = "table"
         THEN LET vals == [n \in DOMAIN matobj.cols |->
                              to_pyobj(matobj.cols[n])]
              IN  IF Raised(vals) # {} THEN FirstRaised(vals)
                  ELSE DataFrame(matobj.keys, vals)
         ELSE [type |-> "proxy", obj |-> matobj]
    ELSE matobj

CodecOp(op, arg, ret) == [op |-> op, arg |-> arg, ret |-> ret]

\* the engine has handed back a value that is about to be decoded
InitCodec ==
    /\ MATLAB_CLASS = [k \in {} |-> 0]
    /\ types = <<>>
    /\ instances = <<>>
    /\ workspace = [k \in {} |-> 0]
    /\ functions = <<>>
    /\ last \in {CodecOp("call to_pyobj", v, None) : v \in EngineValues}

NextCodec ==
    /\ last.op = "call to_pyobj"
    /\ last' = CodecOp("to_pyobj", last.arg, to_pyobj(last.arg))
    /\ UNCHANGED <<MATLAB_CLASS, types, instances, workspace, functions>>

SpecCodec == InitCodec /\ [][NextCodec]_vars

-----------------------------------------------------------------------------
(* to_matobj: encoding host values, and the round trip through the engine *)

\* the depth to which lists and dicts are nested
MaxDepth == 2

UnsupportedDType == "KeyError: dtype"
NoItems == "AttributeError: 'MatStruct' object has no attribute 'items'"
NotCallable == "TypeError: object is not callable"

\* a numpy array of one or two dimensions
NdArray(dtype, shape, data) ==
    [type |-> "ndarray", dtype |-> dtype, shape |-> shape, data |-> data]

\* DTYPE_MAP[pyobj.dtype](pyobj.tolist()): a flat list makes a 1xN array
MLArrayOf(pyobj) ==
    MLArray(DTYPE_MAP[pyobj.dtype][1], DTYPE_MAP[pyobj.dtype][2],
            IF Len(pyobj.shape) = 1 THEN <<pyobj.data>> ELSE pyobj.data)

RECURSIVE to_matobj(_)
to_matobj(pyobj) ==
    IF pyobj.type = "ndarray"
    THEN IF pyobj.dtype \in DOMAIN DTYPE_MAP THEN MLArrayOf(pyobj)
         ELSE RaiseNaming(UnsupportedDType, pyobj.dtype)
    ELSE IF pyobj.type \in {"list", "tuple"}
    THEN LET items == [n \in DOMAIN pyobj.items |-> to_matobj(pyobj.items[n])]
         IN  IF Raised(items) # {} THEN FirstRaised(items)
             ELSE [type |-> "list", items |-> items]
    ELSE IF pyobj.type \in BASIC_TYPES THEN pyobj
    ELSE IF pyobj.type = "dict"
    THEN LET items == [n \in DOMAIN pyobj.items |-> to_matobj(pyobj.items[n])]
         IN  IF Raised(items) # {} THEN FirstRaised(items)
             ELSE [type |-> "dict", keys |-> pyobj.keys, items |-> items]
    ELSE IF pyobj.type = "MatStruct"
    THEN \* pyobj.items is an attribute lookup: a field of that name, or none
         IF "items" \in DOMAIN pyobj.attrs THEN Raise(NotCallable)
         ELSE Raise(NoItems)
    ELSE IF pyobj.type = "MatFunction" THEN pyobj.fhandle
    ELSE IF pyobj.type = "MatClass" THEN pyobj.obj
    ELSE IF pyobj.type = "DataFrame"
    THEN IF \E n \in DOMAIN pyobj.cols :
                pyobj.cols[n].dtype \notin DOMAIN DTYPE_MAP
         THEN LET bad == {n \in DOMAIN pyobj.cols :
                             pyobj.cols[n].dtype \notin DOMAIN DTYPE_MAP}
                  n == CHOOSE i \in bad : \A j \in bad : i <= j
              IN  RaiseNaming(UnsupportedDType, pyobj.cols[n].dtype)
         ELSE TableHandle(pyobj.keys,
                  [n \in DOMAIN pyobj.cols |->
                      MLArray(DTYPE_MAP[pyobj.cols[n].dtype][1],
                              DTYPE_MAP[pyobj.cols[n].dtype][2],
                              [i \in DOMAIN pyobj.cols[n].data |->
                                  <<pyobj.cols[n].data[i]>>])])
    ELSE IF pyobj.type = "Path" THEN Str(pyobj.text)
    ELSE IF pyobj.type = "MatObject" THEN pyobj
    ELSE RaiseNaming(UnsupportedType, pyobj.type)

Vectors == UNION {[1..n -> {0, 1}] : n \in 1..MaxDim}

\* the numpy dtypes: those of DTYPE_MAP and one that is not in it
DTypes == DOMAIN DTYPE_MAP \cup {"float128"}

HostArrays ==
    {NdArray(d, <<Len(x)>>, x) : d \in DTypes, x \in Vectors}
    \cup {NdArray(d, <<Len(r), Len(r[1])>>, r) : d \in DTypes, r \in Rows}

Leaves == {Scalar("bool", 1), Scalar("int", 1), Scalar("float", 1), Str("s")}

List(items) == [type |-> "list", items |-> items]
Dict(keys, items) == [type |-> "dict", keys |-> keys, items |-> items]

RECURSIVE Nested(_)
\* primitives, lists and string-keyed dicts nested d deep
Nested(d) ==
    IF d = 0 THEN Leaves
    ELSE LET in == Nested(d - 1)
         IN  in \cup {List(<<>>), Dict(<<>>, <<>>)}
             \cup {List(<<x>>) : x \in in}
             \cup {List(<<x, y>>) : x \in Leaves, y \in in}
             \cup {Dict(<<"a">>, <<x>>) : x \in in}
             \cup {Dict(<<"b", "a">>, <<x, y>>) : x \in in, y \in Leaves}

\* the dtypes of the columns of a table
ColumnDTypes == {"float64", "int8", "bool", "complex128", "float128"}

\* tables of one and of two columns, all columns of one length
HostTables ==
    {[type |-> "DataFrame", keys |-> <<"a">>, cols |-> <<Column(d, x)>>] :
        d \in ColumnDTypes, x \in Vectors}
    \cup UNION {{[type |-> "DataFrame", keys |-> <<"b", "a">>,
                  cols |-> <<Column(d, x), Column(e, y)>>] :
                    d \in ColumnDTypes, e \in {"float64", "complex128"},
                    y \in {v \in Vectors : Len(v) = Len(x)}} : x \in Vectors}

\* host values of no supported kind
Unsupported == {Scalar("complex", 1), [type |-> "set"]}

\* the values handed to to_matobj
HostCodecValues ==
    HostArrays \cup Nested(MaxDepth) \cup Unsupported \cup HostTables
    \cup {List(<<x, y>>) : x \in Leaves, y \in Unsupported}
    \cup {Dict(<<"a">>, <<List(<<x>>)>>) :
             x \in Unsupported \cup {NdArray("float128", <<2>>, <<0, 1>>),
                                     NdArray("float64", <<2>>, <<0, 1>>)}}
    \cup {Dict(<<"_all">>, <<x>>) : x \in Leaves \cup {List(<<>>)}}
    \cup {MatStruct_init(<<"a">>, <<x>>) : x \in Leaves}
    \cup {MatStruct_init(<<"items", "b">>, <<x, x>>) : x \in Leaves}

\* a call of the engine made on the way
CodecCall(fn) == [fn |-> fn]

\* the calls to_matobj makes: a DataFrame is turned into a table by the engine
EncodeCalls(pyobj) ==
    IF pyobj.type = "DataFrame" THEN <<CodecCall("struct2table")>> ELSE <<>>

\* the calls to_pyobj makes: a handle is asked its class, a table its columns
DecodeCalls(matobj) ==
    IF matobj.type = "MatObject"
    THEN <<CodecCall("class"), CodecCall("table2struct")>>
    ELSE <<>>

\* via is the caller: MatFunction.__call__ or the func of a method
RoundTripOp(op, via, host, mat, ret, calls) ==
    [op |-> op, via |-> via, host |-> host, mat |-> mat, ret |-> ret,
     calls |-> calls]

InitRoundTrip ==
    /\ MATLAB_CLASS = [k \in {} |-> 0]
    /\ types = <<>>
    /\ instances = <<>>
    /\ workspace = [k \in {} |-> 0]
    /\ functions = <<>>
    /\ last \in {RoundTripOp("call", via, v, None, None, <<>>) :
                    via \in {"MatFunction", "method"}, v \in HostCodecValues}

\* map(to_matobj, argin), run when feval's arguments are unpacked
Encode(fail) ==
    /\ last.op = "call"
    /\ LET mat == to_matobj(last.host)
           calls == IF mat.type = "raise" THEN <<>> ELSE EncodeCalls(last.host)
       IN  last' = RoundTripOp("to_matobj", last.via, last.host,
                               IF fail /\ calls # <<>>
                               THEN Raise(MatlabExecutionError) ELSE mat,
                               None, calls)
    /\ UNCHANGED <<MATLAB_CLASS, types, instances, workspace, functions>>

\* feval of a function that hands its argument back, and to_pyobj
Decode(fail) ==
    /\ last.op = "to_matobj"
    /\ last.mat.type # "raise"
    /\ last' = RoundTripOp("to_pyobj", last.via, last.host, last.mat,
                           IF fail THEN Raise(MatlabExecutionError)
                           ELSE to_pyobj(last.mat),
                           last.calls \o <<CodecCall("feval")>>
                           \o (IF fail THEN <<>> ELSE DecodeCalls(last.mat)))
    /\ UNCHANGED <<MATLAB_CLASS, types, instances, workspace, functions>>

NextRoundTrip ==
    \/ \E fail \in BOOLEAN : Encode(fail)
    \/ \E fail \in BOOLEAN : Decode(fail)

SpecRoundTrip == InitRoundTrip /\ [][NextRoundTrip]_vars

-----------------------------------------------------------------------------
(* MatStruct as a state machine: construction and field assignment *)

\* the number of field assignments made on one MatStruct
MaxAssign == 3

FieldKeys == {"a", "b", "c"}
FieldValues == {Scalar("int", 0), Scalar("int", 1)}

\* first lists the keys in the order of their first assignment
StructOp(op, self, key, value, first) ==
    [op |-> op, self |-> self, key |-> key, value |-> value, first |-> first]

\* MatStruct() and MatStruct({"a": value})
InitStruct ==
    /\ MATLAB_CLASS = [k \in {} |-> 0]
    /\ types = <<>>
    /\ instances = <<>>
    /\ workspace = [k \in {} |-> 0]
    /\ functions = <<>>
    /\ last \in {StructOp("MatStruct", MatStruct_init(<<>>, <<>>), "", None,
                          <<>>)}
                \cup {StructOp("MatStruct", MatStruct_init(<<"a">>, <<v>>),
                               "", None, <<"a">>) : v \in FieldValues}

\* setattr(self, key, value)
Setattr(key, value) ==
    /\ Len(last.self.all) < MaxAssign
    /\ last' = StructOp("__setattr__",
                        MatStruct_setattr(last.self, key, value), key, value,
                        IF \E n \in DOMAIN last.first : last.first[n] = key
                        THEN last.first ELSE Append(last.first, key))
    /\ UNCHANGED <<MATLAB_CLASS, types, instances, workspace, functions>>

\* self[key] = value; ret is what the statement raised, None if nothing
Setitem(key, value) ==
    /\ LET r == MatStruct_setitem(last.self, key, value)
       IN  last' = [ret |-> IF r.type = "raise" THEN r ELSE None] @@
                   StructOp("__setitem__",
                            IF r.type = "raise" THEN last.self ELSE r,
                            key, value, last.first)
    /\ UNCHANGED <<MATLAB_CLASS, types, instances, workspace, functions>>

NextStruct ==
    \/ \E key \in FieldKeys, value \in FieldValues : Setattr(key, value)
    \/ \E key \in FieldKeys, value \in FieldValues : Setitem(key, value)

SpecStruct == InitStruct /\ [][NextStruct]_vars

-----------------------------------------------------------------------------
(* MatClass._send called from several threads on one unbound instance.     *)
(* Each statement of _send is one step; the interpreter may switch threads *)
(* between any two of them.  The package holds two definitions of the      *)
(* method: core.py names the symbol after id(self), matcall.py after the   *)
(* class attribute _record, which it increments after the workspace write. *)

\* the number of threads making their first property access
MaxThreads == 2

Threads == 1..MaxThreads

SendModules == {"core", "matcall"}

\* pc: the statement each thread is at; objname: its local variable;
\* ret: what its call returned; tmp: the _record it loaded for the increment
RaceOp(module, pc, objname, ret, tmp) ==
    [op |-> "_send", module |-> module, pc |-> pc, objname |-> objname,
     ret |-> ret, tmp |-> tmp]

\* f"{clsname}_No{self.__class__._record}"
ObjNameNo(i) == <<TypeOf(i).name, "_No", TypeOf(i).record>>

\* one synthesized class with one instance, not yet sent to the workspace
InitRace ==
    /\ MATLAB_CLASS = (NewClassName(ClsPlain) :> 1)
    /\ types = <<[name |-> NewClassName(ClsPlain), real_name |-> ClsPlain,
                  attrs |-> DefineProperties(NoAttrs, EngineProperties(ClsPlain)),
                  record |-> 0]>>
    /\ instances = <<NewInstance([cls |-> ClsPlain, id |-> 1], 1)>>
    /\ workspace = [k \in {} |-> 0]
    /\ functions = <<>>
    /\ last \in {RaceOp(m, [t \in Threads |-> "hasattr"],
                         [t \in Threads |-> Unbound],
                         [t \in Threads |-> Unbound],
                         [t \in Threads |-> 0]) : m \in SendModules}

At(t, pc) == last.op = "_send" /\ last.pc[t] = pc

Goto(t, pc) == [last EXCEPT !.pc[t] = pc]

\* if hasattr(self, "_objname"): return self._objname
SendHasattr(t) ==
    /\ At(t, "hasattr")
    /\ last' = IF instances[1].objname # Unbound
               THEN [Goto(t, "done") EXCEPT !.ret[t] = instances[1].objname]
               ELSE Goto(t, "objname")
    /\ UNCHANGED <<MATLAB_CLASS, types, instances, workspace, functions>>

\* clsname = self.__class__.__name__ ; objname = f"..."
SendObjname(t) ==
    /\ At(t, "objname")
    /\ last' = [Goto(t, "setattr") EXCEPT
                  !.objname[t] = IF last.module = "core" THEN ObjName(1)
                                 ELSE ObjNameNo(1)]
    /\ UNCHANGED <<MATLAB_CLASS, types, instances, workspace, functions>>

\* self._objname = objname
SendSetattr(t) ==
    /\ At(t, "setattr")
    /\ instances' = [instances EXCEPT ![1].objname = last.objname[t]]
    /\ last' = Goto(t, "write")
    /\ UNCHANGED <<MATLAB_CLASS, types, workspace, functions>>

\* ENGINE.workspace[self._objname] = to_matobj(self._obj)
SendWrite(t, fail) ==
    /\ At(t, "write")
    /\ IF fail
       THEN /\ last' = Goto(t, "raised")
            /\ UNCHANGED <<instances, workspace>>
       ELSE /\ workspace' = (instances[1].objname :> instances[1].obj)
                               @@ workspace
            /\ instances' = [instances EXCEPT ![1].nalloc = @ + 1]
            /\ last' = Goto(t, IF last.module = "core" THEN "return"
                                ELSE "load")
    /\ UNCHANGED <<MATLAB_CLASS, types, functions>>

\* self.__class__._record += 1, the load
SendLoad(t) ==
    /\ At(t, "load")
    /\ last' = [Goto(t, "store") EXCEPT !.tmp[t] = TypeOf(1).record]
    /\ UNCHANGED <<MATLAB_CLASS, types, instances, workspace, functions>>

\* self.__class__._record += 1, the store
SendStore(t) ==
    /\ At(t, "store")
    /\ types' = [types EXCEPT ![instances[1].tid].record = last.tmp[t] + 1]
    /\ last' = Goto(t, "return")
    /\ UNCHANGED <<MATLAB_CLASS, instances, workspace, functions>>

\* return objname
SendReturn(t) ==
    /\ At(t, "return")
    /\ last' = [Goto(t, "done") EXCEPT !.ret[t] = last.objname[t]]
    /\ UNCHANGED <<MATLAB_CLASS, types, instances, workspace, functions>>

NextRace ==
    \/ \E t \in Threads : SendHasattr(t)
    \/ \E t \in Threads : SendObjname(t)
    \/ \E t \in Threads : SendSetattr(t)
    \/ \E t \in Threads, fail \in BOOLEAN : SendWrite(t, fail)
    \/ \E t \in Threads : SendLoad(t)
    \/ \E t \in Threads : SendStore(t)
    \/ \E t \in Threads : SendReturn(t)

SpecRace == InitRace /\ [][NextRace]_vars

-----------------------------------------------------------------------------
(* mlarray.py: building an engine array from a host array, and back.  A    *)
(* host array is its dtype, its shape and its elements in C (row-major)    *)
(* order; bytes are tagged with the element they come from, their place in *)
(* it and its width, so that a regrouping at another width shows.          *)

\* the largest extent of a host array along one axis
MaxSide == 2

\* PYARRAY_TYPE_MAP
PYARRAY_TYPE_MAP ==
    [int8 |-> "b", int16 |-> "h", int32 |-> "i", int64 |-> "l",
     float16 |-> "f", float32 |-> "f", float64 |-> "d",
     uint8 |-> "B", uint16 |-> "H", uint32 |-> "I", uint64 |-> "L",
     bool |-> "B"]

\* arr.dtype.itemsize
DtypeSize ==
    [int8 |-> 1, int16 |-> 2, int32 |-> 4, int64 |-> 8,
     float16 |-> 2, float32 |-> 4, float64 |-> 8,
     uint8 |-> 1, uint16 |-> 2, uint32 |-> 4, uint64 |-> 8, bool |-> 1]

\* array(typecode).itemsize, with the 8-byte long of Linux and macOS
ItemSize ==
    [b |-> 1, h |-> 2, i |-> 4, l |-> 8, f |-> 4, d |-> 8,
     B |-> 1, H |-> 2, I |-> 4, L |-> 8]

Flat(dtype, shape, flat) ==
    [type |-> "ndarray", dtype |-> dtype, shape |-> shape, flat |-> flat]

\* the number of elements of a shape
Size(shape) == IF Len(shape) = 1 THEN shape[1] ELSE shape[1] * shape[2]

\* shape[::-1]
Reversed(shape) == [n \in DOMAIN shape |-> shape[Len(shape) + 1 - n]]

\* arr.T, of an array of rank 1 or 2
Transposed(arr) ==
    IF Len(arr.shape) = 1 THEN arr
    ELSE LET r == arr.shape[1]
             c == arr.shape[2]
         IN  [arr EXCEPT
                 !.shape = <<c, r>>,
                 !.flat = [k \in 1..(r * c) |->
                              arr.flat[((k - 1) % r) * c + ((k - 1) \div r) + 1]]]

\* the bytes of one element
Bytes(dtype, v) ==
    [m \in 1..DtypeSize[dtype] |-> <<v, m, DtypeSize[dtype]>>]

RECURSIVE tobytes(_, _)
\* arr.tobytes(): the elements in C order, from element n on
tobytes(arr, n) ==
    IF n > Len(arr.flat) THEN <<>>
    ELSE Bytes(arr.dtype, arr.flat[n]) \o tobytes(arr, n + 1)

\* an element read from bytes that are not one whole element
Garbled == -1

BadLength == "ValueError: bytes length not a multiple of item size"
BadReshape == "ValueError: cannot reshape array"

\* pyarray(typecode).frombytes(bytes)
frombytes(typecode, bytes) ==
    LET w == ItemSize[typecode]
        item(k) == SubSeq(bytes, (k - 1) * w + 1, k * w)
    IN  IF Len(bytes) % w # 0 THEN Raise(BadLength)
        ELSE [type |-> "array", typecode |-> typecode,
              items |-> [k \in 1..(Len(bytes) \div w) |->
                           IF \A m \in 1..w :
                                 item(k)[m] = <<item(k)[1][1], m, w>>
                           THEN item(k)[1][1] ELSE Garbled]]

\* np.cumprod((1,) + arr.shape[:-1]).tolist()
Strides(shape) == IF Len(shape) = 1 THEN <<1>> ELSE <<1, shape[1]>>

\* mlarray(obj) for a real array
mlarray(arr) ==
    LET arr_t == Transposed(arr)
        typecode == PYARRAY_TYPE_MAP[arr_t.dtype]
        data == frombytes(typecode, tobytes(arr_t, 1))
    IN  IF data.type = "raise" THEN data
        ELSE [type |-> "mlarray", cls |-> DTYPE_MAP[arr.dtype][1],
              is_complex |-> FALSE, size |-> arr_t.shape,
              strides |-> Strides(arr.shape), data |-> data.items]

\* mlarray_to_numpy(ml) for an array without _imag
mlarray_to_numpy(ml) ==
    LET dtype == DTYPE_MAP_INV[ml.cls]
        shape == Reversed(ml.size)
    IN  IF Size(shape) # Len(ml.data) THEN Raise(BadReshape)
        ELSE Transposed(Flat(dtype, shape, ml.data))

\* the host arrays of rank 1 and 2; the element at [i] is i, at [i, j] is
\* 10 * i + j
HostMatrices ==
    {Flat(d, <<n>>, [k \in 1..n |-> k]) :
        d \in DOMAIN PYARRAY_TYPE_MAP, n \in 1..MaxSide}
    \cup {Flat(d, <<r, c>>,
                [k \in 1..(r * c) |->
                    10 * (((k - 1) \div c) + 1) + ((k - 1) % c) + 1]) :
             d \in DOMAIN PYARRAY_TYPE_MAP, r \in 1..MaxSide, c \in 1..MaxSide}

\* a: the host array, ml: what mlarray made of it, ret: what
\* mlarray_to_numpy made of ml
ArrayOp(op, a, ml, ret) == [op |-> op, a |-> a, ml |-> ml, ret |-> ret]

InitArray ==
    /\ MATLAB_CLASS = [k \in {} |-> 0]
    /\ types = <<>>
    /\ instances = <<>>
    /\ workspace = [k \in {} |-> 0]
    /\ functions = <<>>
    /\ last \in {ArrayOp("asarray", a, None, None) : a \in HostMatrices}

\* ml = mlarray(a)
ToMlarray ==
    /\ last.op = "asarray"
    /\ last' = ArrayOp("mlarray", last.a, mlarray(last.a), None)
    /\ UNCHANGED <<MATLAB_CLASS, types, instances, workspace, functions>>

\* mlarray_to_numpy(ml)
ToNumpy ==
    /\ last.op = "mlarray"
    /\ last.ml.type = "mlarray"
    /\ last' = ArrayOp("mlarray_to_numpy", last.a, last.ml,
                       mlarray_to_numpy(last.ml))
    /\ UNCHANGED <<MATLAB_CLASS, types, instances, workspace, functions>>

NextArray == ToMlarray \/ ToNumpy

SpecArray == InitArray /\ [][NextArray]_vars

-----------------------------------------------------------------------------
(* Properties of the class proxy layer *)

WorkspaceWrites(calls) ==
    SelectSeq(calls, LAMBDA c : c.fn = "workspace.__setitem__")

Evals(calls) == SelectSeq(calls, LAMBDA c : c.fn = "eval")

Fevals(calls) == SelectSeq(calls, LAMBDA c : c.fn = "feval")

\* C1 as stated: after any property read or write on an instance, exactly
\* one workspace write of its handle has been performed.
C1_EveryAccessAllocates ==
    last.op \in {"getter", "setter"} => instances[last.inst].nalloc = 1

\* C1, amended: an instance's handle is written to the workspace at most
\* once, exactly when the instance gets bound; every property write, and
\* every property read on a type without a 'get' attribute, leaves exactly
\* one write performed and uses the bound symbol; a read on a type with a
\* 'get' attribute performs no write.
C1_AtMostOneAllocation ==
    /\ \A i \in DOMAIN instances :
          /\ instances[i].nalloc <= 1
          /\ instances[i].nalloc = 1 <=> instances[i].objname # Unbound
    /\ last.op \in {"getter", "setter"} =>
          LET i == last.inst
          IN  /\ Len(WorkspaceWrites(last.calls)) <= 1
              /\ \A n \in DOMAIN last.calls :
                    last.calls[n].fn \in {"workspace.__setitem__", "eval"}
                        => last.calls[n].sym = instances[i].objname
              /\ IF last.op = "getter" /\ HasAttr(i, "get")
                 THEN WorkspaceWrites(last.calls) = <<>>
                 ELSE instances[i].nalloc = 1

\* a later access that reuses the cached symbol
C1_Witness ==
    /\ last.op = "getter"
    /\ last.err = ""
    /\ instances[last.inst].nalloc = 1
    /\ WorkspaceWrites(last.calls) = <<>>
    /\ Evals(last.calls) # <<>>

\* C2: an instance is created unbound, and once it is bound no step unbinds
\* it or changes its symbol.
C2_BindingOneWay ==
    [][\A i \in DOMAIN instances' :
          IF i \in DOMAIN instances
          THEN instances[i].objname # Unbound
                  => instances'[i].objname = instances[i].objname
          ELSE instances'[i].objname = Unbound]_vars

\* a bound instance on which a further operation has acted
C2_Witness ==
    /\ last.op \in {"setter", "getter", "hash", "method_call", "pass_instance"}
    /\ instances[last.inst].objname # Unbound
    /\ WorkspaceWrites(last.calls) = <<>>

C4_CacheMemoizes ==
    [][/\ \A k \in DOMAIN MATLAB_CLASS :
             /\ k \in DOMAIN MATLAB_CLASS'
             /\ MATLAB_CLASS'[k] = MATLAB_CLASS[k]
             /\ types'[MATLAB_CLASS[k]] = types[MATLAB_CLASS[k]]
       /\ (last'.op = "translate_obj"
              /\ last'.cls \in ProxyClasses
              /\ NewClassName(last'.cls) \in DOMAIN MATLAB_CLASS) =>
             /\ \A n \in DOMAIN last'.calls :
                   last'.calls[n].fn \notin {"properties", "methods"}
             /\ last'.ret = "MatClass" =>
                   instances'[Len(instances')].tid =
                       MATLAB_CLASS[NewClassName(last'.cls)]
       /\ \A i, j \in DOMAIN instances' :
             instances'[i].obj.cls = instances'[j].obj.cls
                 => instances'[i].tid = instances'[j].tid]_vars

\* two handles of one class wrapped with the same type
C4_Witness ==
    \E i, j \in DOMAIN instances :
        /\ i < j
        /\ instances[i].obj.cls = instances[j].obj.cls
        /\ instances[i].tid = instances[j].tid
        /\ last.op = "translate_obj"
        /\ Len(last.calls) = 1

\* C5 as stated: handles of classes with different names are wrapped by
\* different types, each synthesized from the handle's own class.
C5_OneTypePerClassName ==
    \A i, j \in DOMAIN instances :
        /\ TypeOf(i).real_name = instances[i].obj.cls
        /\ instances[i].obj.cls # instances[j].obj.cls
              => instances[i].tid # instances[j].tid

\* the values the claim lets through: scalars of bool, int, float, str and
\* arrays of one dimension
SimpleValue(value) ==
    \/ value.type \in {"bool", "int", "float", "str"}
    \/ (value.type = "ndarray" /\ value.ndim = 1)

\* the assignment expression f"{objname}.{key}=<literal>;" was evaluated
Committed(op) ==
    /\ Len(Evals(op.calls)) = 1
    /\ Evals(op.calls)[1].sym = instances[op.inst].objname
    /\ Evals(op.calls)[1].key = op.key
    /\ Evals(op.calls)[1].lit # ""

C7_MethodImmutable ==
    [][last'.op = "method_setter" =>
          /\ last'.err = ImmutableMethod
          /\ last'.calls = <<>>
          /\ UNCHANGED <<MATLAB_CLASS, types, instances, workspace, functions>>
          /\ IsMethod(last'.inst, last'.key)]_vars

\* an assignment to a method attribute has been refused
C7_Witness ==
    /\ last.op = "method_setter"
    /\ last.err = ImmutableMethod
    /\ IsMethod(last.inst, last.key)

-----------------------------------------------------------------------------
(* Properties of eval *)

EvalCalls(op) == SelectSeq(op.calls, LAMBDA c : c.fn = "eval")

Queries(op) == SelectSeq(op.calls, LAMBDA c : c.fn = "nargout")

\* the arity of the claim's rule list, the first rule reading "the statement
\* is terminated by ';'"
ClaimedArity(s, declared) ==
    IF s[Len(s)] = ";" THEN 0
    ELSE IF Contains(s, <<"=">>)
         THEN IF Contains(s, <<"=", "=">>) THEN 1 ELSE 0
    ELSE IF Contains(s, <<"@">>) THEN 1
    ELSE IF Contains(s, <<"(">>) THEN IF declared < 0 THEN 1 ELSE declared
    ELSE IF Contains(s, <<" ">>) THEN 0
    ELSE 1

\* C8 as stated: without an arity, a non-empty expression is evaluated with
\* the arity of the first matching rule, the first rule being "terminated
\* by ';'".
C8_ArityAsStated ==
    (last.op = "eval" /\ last.nargout < 0 /\ EvalCalls(last) # <<>>) =>
        EvalCalls(last)[1].nargout =
            ClaimedArity(last.input,
                         IF Queries(last) = <<>> THEN 0
                         ELSE Queries(last)[1].reply)

\* C8, amended: the first rule is "contains ';' anywhere".  An empty
\* expression is not evaluated; a given arity >= 0 is used without a query;
\* otherwise the rules apply in order, and only the call rule queries the
\* engine, for the text before the first "(".
C8_ArityRules ==
    last.op = "eval" =>
        LET s == last.input
            has(c) == \E k \in DOMAIN s : s[k] = c
            eq == \E k \in 1..(Len(s) - 1) : s[k] = "=" /\ s[k + 1] = "="
            used == EvalCalls(last)[1].nargout
            noquery == Queries(last) = <<>> /\ Len(last.calls) = 1
        IN  /\ Len(s) = 0 => last.calls = <<>> /\ last.ret = "None"
            /\ (Len(s) > 0 /\ last.nargout >= 0) =>
                  noquery /\ used = last.nargout
            /\ (Len(s) > 0 /\ last.nargout < 0) =>
                  /\ has(";") => noquery /\ used = 0
                  /\ (~has(";") /\ has("=") /\ ~eq) => noquery /\ used = 0
                  /\ (~has(";") /\ eq) => noquery /\ used = 1
                  /\ (~has(";") /\ ~has("=") /\ has("@")) =>
                        noquery /\ used = 1
                  /\ (~has(";") /\ ~has("=") /\ ~has("@") /\ has("(")) =>
                        /\ Len(Queries(last)) = 1
                        /\ last.calls[1].fn = "nargout"
                        /\ \E k \in DOMAIN s :
                              /\ s[k] = "("
                              /\ last.calls[1].text = SubSeq(s, 1, k - 1)
                              /\ \A j \in 1..(k - 1) : s[j] # "("
                        /\ IF last.err # "" /\ Len(last.calls) = 1
                           THEN EvalCalls(last) = <<>>
                           ELSE used = IF last.calls[1].reply < 0 THEN 1
                                       ELSE last.calls[1].reply
                  /\ (~has(";") /\ ~has("=") /\ ~has("@") /\ ~has("(")
                        /\ has(" ")) => noquery /\ used = 0
                  /\ (~has(";") /\ ~has("=") /\ ~has("@") /\ ~has("(")
                        /\ ~has(" ")) => noquery /\ used = 1

\* a call whose declared arity is negative is evaluated with arity 1
C8_Witness ==
    /\ last.op = "eval"
    /\ last.nargout < 0
    /\ Len(last.calls) = 2
    /\ last.calls[1].fn = "nargout"
    /\ last.calls[1].reply < 0
    /\ last.calls[2].nargout = 1

-----------------------------------------------------------------------------
(* Properties of MatFunction *)

\* C9: every constructed MatFunction holds an arity >= 0: the arity given if
\* it is >= 0, else 1 for a name that starts with "@", else the arity the
\* engine declares, or 1 if that is negative; the engine is asked only in the
\* last case.  No step, a call included, changes a constructed MatFunction,
\* and a call passes the resolved arity on.
C9_ArityResolved ==
    [][/\ \A f \in DOMAIN functions' : functions'[f].nargout >= 0
       /\ \A f \in DOMAIN functions :
             f \in DOMAIN functions' /\ functions'[f] = functions[f]
       /\ (last'.op = "MatFunction" /\ last'.err = "") =>
             LET new == functions'[Len(functions')]
                 q == Queries(last')
             IN  /\ Len(functions') = Len(functions) + 1
                 /\ last'.nargout >= 0 =>
                       new.nargout = last'.nargout /\ q = <<>>
                 /\ (last'.nargout < 0 /\ new.name[1] = "@") =>
                       new.nargout = 1 /\ q = <<>>
                 /\ (last'.nargout < 0 /\ new.name[1] # "@") =>
                       /\ Len(q) = 1
                       /\ new.nargout = IF q[1].reply < 0 THEN 1
                                        ELSE q[1].reply
       /\ last'.op = "__call__" =>
             /\ functions' = functions
             /\ \A n \in DOMAIN last'.calls :
                   last'.calls[n].nargout = functions[last'.f].nargout]_vars

\* a named function whose declared arity is negative has been given arity 1
C9_Witness ==
    /\ last.op = "MatFunction"
    /\ last.err = ""
    /\ last.nargout < 0
    /\ Len(Queries(last)) = 1
    /\ Queries(last)[1].reply < 0
    /\ functions[last.f].nargout = 1

-----------------------------------------------------------------------------
(* Properties of to_pyobj *)

\* C10: to_pyobj decodes every numeric or boolean engine array by its shape:
\* 1x1 to the bare element, 1xN and Nx1 (N > 1) to a one-dimensional array of
\* the N elements in order, MxN (M, N > 1) to a two-dimensional array with
\* every element in its place.
C10_ShapeRules ==
    (/\ last.op = "to_pyobj"
     /\ last.arg.type = "MLArray"
     /\ Len(last.arg.size) = 2) =>
        LET a == last.arg
            r == a.size[1]
            c == a.size[2]
            out == last.ret
        IN  /\ (r = 1 /\ c = 1) =>
                  out = Scalar(ElementType(a.cls, a.is_complex), a.rows[1][1])
            /\ (r = 1 /\ c > 1) =>
                  /\ out.type = "ndarray"
                  /\ out.shape = <<c>>
                  /\ out.data = a.rows[1]
            /\ (r > 1 /\ c = 1) =>
                  /\ out.type = "ndarray"
                  /\ out.shape = <<r>>
                  /\ out.data = [i \in 1..r |-> a.rows[i][1]]
            /\ (r > 1 /\ c > 1) =>
                  /\ out.type = "ndarray"
                  /\ out.shape = <<r, c>>
                  /\ out.data = a.rows

-----------------------------------------------------------------------------
(* Properties of the round trip *)

\* no call of the engine has raised
EngineAnswered ==
    /\ last.mat # Raise(MatlabExecutionError)
    /\ last.ret # Raise(MatlabExecutionError)

\* C11: an array of length >= 2 of any dtype of DTYPE_MAP comes back from an
\* identity engine call with the same dtype and the same values.
C11_DtypeRoundTrip ==
    (/\ last.op = "to_pyobj"
     /\ EngineAnswered
     /\ last.host.type = "ndarray"
     /\ Len(last.host.shape) = 1
     /\ last.host.shape[1] >= 2) =>
        /\ last.ret.type = "ndarray"
        /\ last.ret.dtype = last.host.dtype
        /\ last.ret.shape = last.host.shape
        /\ last.ret.data = last.host.data

\* C11, amended: the same for every dtype of DTYPE_MAP but float16, whose
\* arrays come back as float32 with the same shape and values.
C11_DtypeRoundTripButHalf ==
    (/\ last.op = "to_pyobj"
     /\ EngineAnswered
     /\ last.host.type = "ndarray"
     /\ Len(last.host.shape) = 1
     /\ last.host.shape[1] >= 2) =>
        /\ last.ret.type = "ndarray"
        /\ last.ret.dtype = IF last.host.dtype = "float16" THEN "float32"
                            ELSE last.host.dtype
        /\ last.ret.shape = last.host.shape
        /\ last.ret.data = last.host.data

\* a complex64 array of length 2 has come back as complex64
C11_Witness ==
    /\ last.op = "to_pyobj"
    /\ last.host.type = "ndarray"
    /\ last.host.dtype = "complex64"
    /\ last.host.shape = <<2>>
    /\ last.ret.type = "ndarray"
    /\ last.ret.dtype = "complex64"
    /\ Fevals(last.calls) # <<>>

RECURSIVE IsPlain(_)
\* v is built from bool, int, float and str, lists and dicts
IsPlain(v) ==
    \/ v.type \in BASIC_TYPES
    \/ /\ v.type \in {"list", "dict"}
       /\ \A n \in DOMAIN v.items : IsPlain(v.items[n])

RECURSIVE FieldNames(_)
\* the field names of the dicts in v
FieldNames(v) ==
    IF v.type \in {"list", "dict"}
    THEN (IF v.type = "dict" THEN {v.keys[n] : n \in DOMAIN v.keys} ELSE {})
         \cup UNION {FieldNames(v.items[n]) : n \in DOMAIN v.items}
    ELSE {}

RECURSIVE SameStructure(_, _)
\* r is v with every dict turned into a MatStruct of the same fields
SameStructure(v, r) ==
    IF v.type \in BASIC_TYPES THEN r = v
    ELSE IF v.type = "list"
    THEN /\ r.type = "list"
         /\ Len(r.items) = Len(v.items)
         /\ \A n \in DOMAIN v.items : SameStructure(v.items[n], r.items[n])
    ELSE /\ r.type = "MatStruct"
         /\ r.all = [n \in DOMAIN v.keys |-> Str(v.keys[n])]
         /\ \A n \in DOMAIN v.keys :
               /\ v.keys[n] \in DOMAIN r.attrs
               /\ SameStructure(v.items[n], r.attrs[v.keys[n]])

\* C12: to_pyobj(to_matobj(v)) has the structure of v for every v built from
\* bool, int, float, str, lists and string-keyed dicts: equal primitives,
\* lists of the same length and order, every dict a MatStruct with the same
\* field names in the same order.
C12_RoundTrip ==
    (last.op = "to_pyobj" /\ EngineAnswered /\ IsPlain(last.host)) =>
        SameStructure(last.host, last.ret)

\* C12, amended: the same for dicts whose keys can be field names of the
\* engine, which never start with an underscore: no key is "_all".
C12_RoundTripOfEngineNames ==
    (last.op = "to_pyobj" /\ EngineAnswered /\ IsPlain(last.host)
        /\ "_all" \notin FieldNames(last.host)) =>
        SameStructure(last.host, last.ret)

\* a dict of two fields, one of them a dict, has come back as a MatStruct
C12_Witness ==
    /\ last.op = "to_pyobj"
    /\ last.host.type = "dict"
    /\ last.host.keys = <<"b", "a">>
    /\ last.host.items[1].type = "dict"
    /\ last.host.items[1].keys = <<"a">>
    /\ last.ret.type = "MatStruct"
    /\ last.ret.attrs["b"].type = "MatStruct"

\* C13: a table of columns of supported dtypes and one row or more, sent to
\* the engine as a table and decoded, is a DataFrame with the same column
\* names in the same order and, in each column, the same values.
C13_TableRoundTrip ==
    (/\ last.op \in {"to_matobj", "to_pyobj"}
     /\ EngineAnswered
     /\ last.host.type = "DataFrame"
     /\ \A n \in DOMAIN last.host.cols :
           last.host.cols[n].dtype \in DOMAIN DTYPE_MAP) =>
        /\ last.mat.type = "MatObject"
        /\ last.op = "to_pyobj" =>
              /\ last.ret.type = "DataFrame"
              /\ last.ret.keys = last.host.keys
              /\ \A n \in DOMAIN last.host.cols :
                    last.ret.cols[n].data = last.host.cols[n].data

\* C14: to_matobj turns a MatStruct, one that to_pyobj returned included,
\* into the engine record it makes of a dict with the same contents: the
\* same field names in the same order, the values converted.
C14_StructEncodes ==
    (last.op = "to_matobj" /\ last.host.type = "MatStruct") =>
        LET fields == MatStruct_iter(last.host)
        IN  last.mat = to_matobj(Dict([n \in DOMAIN fields |-> fields[n][1]],
                                      [n \in DOMAIN fields |-> fields[n][2]]))

RECURSIVE Offences(_)
\* what to_matobj cannot convert in v, lists and dicts searched: the types
\* of no supported kind and the dtypes that DTYPE_MAP lacks
Offences(v) ==
    IF v.type \in {"list", "tuple", "dict"}
    THEN UNION {Offences(v.items[n]) : n \in DOMAIN v.items}
    ELSE IF v.type = "ndarray"
    THEN IF v.dtype \in DOMAIN DTYPE_MAP THEN {}
         ELSE {<<UnsupportedDType, v.dtype>>}
    ELSE IF v.type \in BASIC_TYPES \cup {"MatStruct", "DataFrame"} THEN {}
    ELSE {<<UnsupportedType, v.type>>}

\* C15: when the argument of a MatFunction call or of a method call holds, at
\* any depth of lists and dicts, a value of no supported kind or an array of
\* a dtype DTYPE_MAP lacks, the call raises the TypeError naming that type or
\* the KeyError naming that dtype, and feval is not called.
C15_FailFast ==
    (last.op \in {"to_matobj", "to_pyobj"} /\ Offences(last.host) # {}) =>
        /\ last.op = "to_matobj"
        /\ last.mat.type = "raise"
        /\ <<last.mat.err, last.mat.name>> \in Offences(last.host)
        /\ last.calls = <<>>

\* a set in a list in a dict has stopped a method call before feval
C15_Witness ==
    /\ last.op = "to_matobj"
    /\ last.via = "method"
    /\ last.host = Dict(<<"a">>, <<List(<<[type |-> "set"]>>)>>)
    /\ last.mat = RaiseNaming(UnsupportedType, "set")
    /\ last.calls = <<>>

-----------------------------------------------------------------------------
(* Properties of MatStruct *)

\* C16: after any field assignments, assignments to an existing field
\* included, the field list of a MatStruct holds every assigned name once,
\* in the order of first assignment, its length is the number of distinct
\* fields, and iteration yields every field once with its latest value.
C16_FieldsUnique ==
    /\ last.self.all = [n \in DOMAIN last.first |-> Str(last.first[n])]
    /\ Len(last.self.all) = Cardinality(DOMAIN last.self.attrs)
    /\ MatStruct_iter(last.self) =
          [n \in DOMAIN last.first |->
              <<last.first[n], last.self.attrs[last.first[n]]>>]
    /\ last.op = "__setattr__" => last.self.attrs[last.key] = last.value

-----------------------------------------------------------------------------
(* Further properties of to_pyobj *)

\* C17: to_pyobj turns every engine array of one element, real, integer,
\* boolean or complex, into that element and never into an array.
C17_SizeOneCollapses ==
    (/\ last.op = "to_pyobj"
     /\ last.arg.type = "MLArray"
     /\ \A n \in DOMAIN last.arg.size : last.arg.size[n] = 1) =>
        /\ last.ret.type # "ndarray"
        /\ last.ret.type = ElementType(last.arg.cls, last.arg.is_complex)
        /\ last.ret.val = last.arg.rows[1][1]

\* C18: to_pyobj returns unchanged, and without an error, every value that is
\* not None, a basic value, a list or tuple, a dict, an engine array or a
\* handle.
C18_PassThrough ==
    (/\ last.op = "to_pyobj"
     /\ last.arg.type \notin BASIC_TYPES \cup
           {"NoneType", "list", "tuple", "dict", "MLArray", "MatObject"}) =>
        last.ret = last.arg

\* C20: to_pyobj changes the shape of 1xN and Nx1 arrays only: any other
\* array, a 1xMxN one included, keeps its shape and its elements.
C20_OtherShapesKept ==
    (/\ last.op = "to_pyobj"
     /\ last.arg.type = "MLArray"
     /\ ~(Len(last.arg.size) = 2 /\ \E n \in 1..2 : last.arg.size[n] = 1)) =>
        /\ last.ret.type = "ndarray"
        /\ last.ret.shape = last.arg.size
        /\ last.ret.data = last.arg.rows

-----------------------------------------------------------------------------
(* Properties of MatFunction.__doc__ *)

HelpQueries(op) == SelectSeq(op.calls, LAMBDA c : c.fn = "evalc")

\* C19: constructing and calling a MatFunction issue no help query and cache
\* no text; an access to __doc__ that finds no cached text issues exactly one
\* query and, once answered, caches and returns the text without its markup;
\* every access after that returns the cached text and issues no query.
C19_DocLazyAndCached ==
    [][/\ last'.op \in {"MatFunction", "__call__"} =>
             /\ HelpQueries(last') = <<>>
             /\ \A f \in DOMAIN functions :
                   functions'[f].doc = functions[f].doc
             /\ \A f \in DOMAIN functions' \ DOMAIN functions :
                   ~functions'[f].doc.cached
       /\ last'.op = "__doc__" =>
             LET was == functions[last'.f].doc
                 now == functions'[last'.f].doc
             IN  IF was.cached
                 THEN /\ last'.calls = <<>>
                      /\ last'.err = ""
                      /\ last'.ret = was.text
                      /\ now = was
                 ELSE /\ Len(HelpQueries(last')) = 1
                      /\ Len(last'.calls) = 1
                      /\ last'.err # "" => now = was
                      /\ last'.err = "" =>
                            /\ now.cached
                            /\ now.text = last'.ret
                            /\ last'.calls[1].reply = LinkHelp =>
                                  now.text = PlainHelp
                            /\ ~Contains(last'.calls[1].reply, <<"<">>) =>
                                  now.text = last'.calls[1].reply]_vars

\* a second access has returned the text cached without its markup
C19_Witness ==
    /\ last.op = "__doc__"
    /\ last.calls = <<>>
    /\ last.ret = PlainHelp
    /\ functions[last.f].doc = [cached |-> TRUE, text |-> PlainHelp]

-----------------------------------------------------------------------------
(* Properties of _send under interleaving *)

\* the workspace symbols that hold the instance's handle
SymbolsOf(i) == {k \in DOMAIN workspace : workspace[k] = instances[i].obj}

\* C21: when threads interleave their first access on one unbound
\* instance, every call that returns returns the same symbol name, the
\* instance is bound to that name, and the workspace never holds the
\* instance's handle under two different symbols.
C21_RaceIdempotent ==
    last.op = "_send" =>
        /\ \A t, u \in Threads :
              (last.pc[t] = "done" /\ last.pc[u] = "done")
                  => last.ret[t] = last.ret[u]
        /\ \A t \in Threads :
              ((\A u \in Threads : last.pc[u] \in {"done", "raised"})
               /\ last.pc[t] = "done")
                  => instances[1].objname = last.ret[t]
        /\ Cardinality(SymbolsOf(1)) <= 1

-----------------------------------------------------------------------------
(* Properties of MatStruct item access *)

\* C22: record[k] = v has the effect of record.k = v: the statement
\* completes, and afterwards k is a field of the record and record[k]
\* returns v.
C22_ItemAssignment ==
    last.op = "__setitem__" =>
        /\ last.ret = None
        /\ MatStruct_getitem(last.self, last.key) = last.value

-----------------------------------------------------------------------------
(* Properties of remove_html *)

OpenTag == <<"<", "a", ">">>
CloseTag == <<"<", "/", "a", ">">>

\* SubSeq(line, n, ...) = tag, also where the line is too short for it
TagAt(line, n, tag) ==
    /\ n + Len(tag) - 1 <= Len(line)
    /\ SubSeq(line, n, n + Len(tag) - 1) = tag

\* the line holds an opening tag and, after it, its closing tag
HasTagPair(line) ==
    \E n, m \in DOMAIN line :
        /\ TagAt(line, n, OpenTag)
        /\ m >= n + Len(OpenTag)
        /\ TagAt(line, m, CloseTag)

RECURSIVE WithoutTags(_)
\* the line without its tags, every other character kept
WithoutTags(line) ==
    IF line = <<>> THEN <<>>
    ELSE IF TagAt(line, 1, OpenTag)
    THEN WithoutTags(SubSeq(line, Len(OpenTag) + 1, Len(line)))
    ELSE IF TagAt(line, 1, CloseTag)
    THEN WithoutTags(SubSeq(line, Len(CloseTag) + 1, Len(line)))
    ELSE <<Head(line)>> \o WithoutTags(Tail(line))

\* C23: remove_html keeps the number of lines; a line holding a balanced
\* pair of matching tags comes back without any tag and with all its other
\* text; every other line comes back unchanged; and a second application
\* changes nothing.
C23_StripLines ==
    last.op = "remove_html" =>
        LET before == Split(last.s, "\n")
            after == Split(last.ret, "\n")
        IN  /\ Len(after) = Len(before)
            /\ \A i \in DOMAIN before :
                  i \in DOMAIN after =>
                     after[i] = IF HasTagPair(before[i])
                                THEN WithoutTags(before[i])
                                ELSE before[i]
            /\ last.n = 2 => last.ret = last.s

-----------------------------------------------------------------------------
(* Properties of the class proxy layer when an operation fails *)

\* C24: a property assignment rejected with the unsupported-assignment
\* error has no side effect: the instance is as it was before, unbound if
\* it was unbound, and nothing was written to the workspace.
C24_RejectionHasNoEffect ==
    [][(last'.op = "setter" /\ last'.err = UnsupportedPropertyAssignment) =>
          /\ WorkspaceWrites(last'.calls) = <<>>
          /\ instances' = instances
          /\ workspace' = workspace]_vars

\* the type with every property and method of its engine class
CompleteAttrs(real_name) ==
    DefineMethods(DefineProperties(NoAttrs, EngineProperties(real_name)),
                  EngineMethods(real_name))

\* C25: a synthesis whose property-list or method-list query fails leaves
\* no entry in the class cache, and every type an instance is made of has
\* all the properties and methods of its class.
C25_NoPartialTypeCached ==
    [][last'.op = "translate_obj" =>
          /\ last'.err # "" => MATLAB_CLASS' = MATLAB_CLASS
          /\ last'.ret = "MatClass" =>
                LET new == instances'[Len(instances')]
                IN  types'[new.tid].attrs =
                       CompleteAttrs(types'[new.tid].real_name)]_vars

\* C26: a bound instance has its handle in the workspace under its symbol;
\* an access whose workspace write fails leaves the instance unbound.
C26_BoundMeansInWorkspace ==
    \A i \in DOMAIN instances :
        instances[i].objname # Unbound =>
            /\ instances[i].objname \in DOMAIN workspace
            /\ workspace[instances[i].objname] = instances[i].obj

\* C27: on an instance whose class has its own get and set methods, a
\* property read and a property write are delegated to those methods,
\* write nothing to the workspace and leave the instance unbound.
C27_DelegationNeedsNoSymbol ==
    [][(/\ last'.op \in {"getter", "setter"}
        /\ HasAttr(last'.inst, "get")
        /\ HasAttr(last'.inst, "set")) =>
          /\ WorkspaceWrites(last'.calls) = <<>>
          /\ instances'[last'.inst].objname = Unbound
          /\ workspace' = workspace]_vars

-----------------------------------------------------------------------------
(* Properties of mlarray and mlarray_to_numpy *)

\* the elements of a host array in column-major order
ColumnMajor(arr) == Transposed(arr).flat

\* C28: for a real host array a of rank 1 or 2, mlarray(a) has a's shape as
\* its size and a's elements in column-major order, and
\* mlarray_to_numpy(mlarray(a)) has the shape and the elements of a.
C28_BuilderInverse ==
    /\ last.op \in {"mlarray", "mlarray_to_numpy"} =>
          /\ last.ml.type = "mlarray"
          /\ last.ml.size = last.a.shape
          /\ last.ml.data = ColumnMajor(last.a)
    /\ last.op = "mlarray_to_numpy" =>
          /\ last.ret.type = "ndarray"
          /\ last.ret.shape = last.a.shape
          /\ last.ret.flat = last.a.flat

====
